---------------------------- MODULE Spec2Model ----------------------------
(***************************************************************************)
(* A model of NPPIC.py: the monthly installed-capacity scraper.            *)
(*                                                                         *)
(* Text is a sequence of one-character strings, so that upper(), strip(),  *)
(* substring tests, isdigit(), split() and float() are computed and not    *)
(* assumed.  A Python float is a fixed-point number of thousandths         *)
(* (1500 stands for 1.5), which keeps DataFrame.round(2) observable.       *)
(* A DataFrame read with header=None is a sequence of rows, each a         *)
(* sequence of cells; Python's 0-based positions are kept and translated   *)
(* at the point of indexing.                                               *)
(***************************************************************************)
EXTENDS Integers, Sequences, FiniteSets, TLC

(***************************************************************************)
(* Bounds of the model                                                     *)
(***************************************************************************)
MaxDataRows == 3      \* data rows below the header in a generated grid
MaxLabels == 2        \* label cells placed in a generated header grid
MaxYears == 2         \* years the START and END settings are drawn from

(***************************************************************************)
(* Text                                                                    *)
(***************************************************************************)
LowerChars == <<"a","b","c","d","e","f","g","h","i","j","k","l","m",
                "n","o","p","q","r","s","t","u","v","w","x","y","z">>
UpperChars == <<"A","B","C","D","E","F","G","H","I","J","K","L","M",
                "N","O","P","Q","R","S","T","U","V","W","X","Y","Z">>
DigitChars == <<"0","1","2","3","4","5","6","7","8","9">>

\* The upper-case letter of each lower-case letter
LowerToUpper ==
    [c \in {LowerChars[i] : i \in 1..26} |->
        UpperChars[CHOOSE i \in 1..26 : LowerChars[i] = c]]

UpperChar(c) == IF c \in DOMAIN LowerToUpper THEN LowerToUpper[c] ELSE c

\* str.upper()
Upper(s) == [i \in 1..Len(s) |-> UpperChar(s[i])]

RECURSIVE LStrip(_)
LStrip(s) == IF s # <<>> /\ Head(s) = " " THEN LStrip(Tail(s)) ELSE s

RECURSIVE RStrip(_)
RStrip(s) ==
    IF s # <<>> /\ s[Len(s)] = " " THEN RStrip(SubSeq(s, 1, Len(s) - 1)) ELSE s

\* str.strip()
Strip(s) == RStrip(LStrip(s))

\* sub in s
Contains(s, sub) ==
    \E i \in 1..(Len(s) - Len(sub) + 1) : SubSeq(s, i, i + Len(sub) - 1) = sub

\* s.startswith(p)
StartsWith(s, p) == Len(s) >= Len(p) /\ SubSeq(s, 1, Len(p)) = p

\* The value of each digit character
DigitValues ==
    [c \in {DigitChars[i] : i \in 1..10} |->
        (CHOOSE i \in 1..10 : DigitChars[i] = c) - 1]

IsDigitChar(c) == c \in DOMAIN DigitValues

DigitVal(c) == DigitValues[c]

\* str.isdigit()
IsDigit(s) == s # <<>> /\ \A i \in 1..Len(s) : IsDigitChar(s[i])

RECURSIVE NatToStr(_)
NatToStr(n) ==
    IF n < 10 THEN <<DigitChars[n + 1]>>
    ELSE NatToStr(n \div 10) \o <<DigitChars[(n % 10) + 1]>>

RECURSIVE StrToNat(_)
StrToNat(s) ==
    IF s = <<>> THEN 0
    ELSE 10 * StrToNat(SubSeq(s, 1, Len(s) - 1)) + DigitVal(s[Len(s)])

\* str(n) of a Python int
IntToStr(n) == IF n < 0 THEN <<"-">> \o NatToStr(0 - n) ELSE NatToStr(n)

\* f"{n:02d}"
Pad2(n) == IF n < 10 THEN <<"0">> \o NatToStr(n) ELSE NatToStr(n)

Abs(n) == IF n < 0 THEN 0 - n ELSE n

RECURSIVE StripZeros(_)
StripZeros(s) ==
    IF Len(s) > 1 /\ s[Len(s)] = "0" THEN StripZeros(SubSeq(s, 1, Len(s) - 1))
    ELSE s

\* str(x) of a Python float, x given in thousandths: 12500 is "12.5"
FloatToStr(v) ==
    LET a == Abs(v)
        f == a % 1000
        frac == <<DigitChars[(f \div 100) + 1], DigitChars[((f \div 10) % 10) + 1],
                  DigitChars[(f % 10) + 1]>>
    IN  (IF v < 0 THEN <<"-">> ELSE <<>>)
          \o NatToStr(a \div 1000) \o <<".">> \o StripZeros(frac)

\* The position of the first "." in s, 0 when there is none
DotPos(s) ==
    IF \E i \in 1..Len(s) : s[i] = "."
    THEN CHOOSE i \in 1..Len(s) : s[i] = "." /\ \A j \in 1..(i - 1) : s[j] # "."
    ELSE 0

\* The thousandths that up to three fraction digits stand for
FracVal(s) ==
    LET d(i) == IF i <= Len(s) THEN DigitVal(s[i]) ELSE 0
    IN  100 * d(1) + 10 * d(2) + d(3)

AllDigits(s) == \A i \in 1..Len(s) : IsDigitChar(s[i])

\* float(s): [ok |-> FALSE] stands for ValueError.  Decimal literals with an
\* optional sign and at most three fraction digits are the ones modelled.
PyFloat(s) ==
    LET neg  == s # <<>> /\ Head(s) = "-"
        body == IF s # <<>> /\ (Head(s) = "-" \/ Head(s) = "+") THEN Tail(s) ELSE s
        dot  == DotPos(body)
        ip   == IF dot = 0 THEN body ELSE SubSeq(body, 1, dot - 1)
        fp   == IF dot = 0 THEN <<>> ELSE SubSeq(body, dot + 1, Len(body))
        ok   == /\ AllDigits(ip) /\ AllDigits(fp)
                /\ Len(ip) + Len(fp) > 0
                /\ Len(fp) <= 3
        mag  == 1000 * StrToNat(ip) + FracVal(fp)
    IN  IF ok THEN [ok |-> TRUE, v |-> IF neg THEN 0 - mag ELSE mag]
        ELSE [ok |-> FALSE, v |-> 0]

RECURSIVE Split(_, _)
\* s.split(sep) for a one-character separator
Split(s, sep) ==
    IF \E i \in 1..Len(s) : s[i] = sep
    THEN LET p == CHOOSE i \in 1..Len(s) : s[i] = sep /\ \A j \in 1..(i - 1) : s[j] # sep
         IN  <<SubSeq(s, 1, p - 1)>> \o Split(SubSeq(s, p + 1, Len(s)), sep)
    ELSE <<s>>

(***************************************************************************)
(* Cells of a DataFrame read with header=None                              *)
(***************************************************************************)
NaN == [t |-> "nan", s |-> <<>>, v |-> 0]
TextCell(s) == [t |-> "str", s |-> s, v |-> 0]
IntCell(n) == [t |-> "int", s |-> <<>>, v |-> n]
FloatCell(v) == [t |-> "float", s |-> <<>>, v |-> v]

\* pd.isna(cell)
isna(cell) == cell.t = "nan"

S_nan == <<"n","a","n">>
S_None == <<"N","o","n","e">>

\* str(cell)
PyStr(cell) ==
    CASE cell.t = "str" -> cell.s
      [] cell.t = "int" -> IntToStr(cell.v)
      [] cell.t = "float" -> FloatToStr(cell.v)
      [] OTHER -> S_nan

\* df.iloc[idx].iloc[col]
iloc(row, col) == row[col + 1]

(***************************************************************************)
(* process_excel_file: the header search                                   *)
(***************************************************************************)
NoCol == 0 - 1        \* a column variable that is still None
HeaderScanRows == 15  \* the header labels are searched in the first 15 rows
DefaultStartRow == 5  \* start_row when no header row was found

L_STATE == <<"S","T","A","T","E">>
L_SECTOR == <<"S","E","C","T","O","R">>
L_OWNERSHIP_SECTOR == <<"O","W","N","E","R","S","H","I","P","/","S","E","C","T","O","R">>
L_COAL == <<"C","O","A","L">>
L_LIGNITE == <<"L","I","G","N","I","T","E">>
L_GAS == <<"G","A","S">>
L_DIESEL == <<"D","I","E","S","E","L">>
L_NUCLEAR == <<"N","U","C","L","E","A","R">>
L_HYDRO == <<"H","Y","D","R","O">>
L_RES == <<"R","E","S">>
L_GRAND == <<"G","R","A","N","D">>
L_TOTAL == <<"T","O","T","A","L">>

\* The column positions and header_rows before the search
InitColumns ==
    [coal_col |-> NoCol, lignite_col |-> NoCol, gas_col |-> NoCol,
     diesel_col |-> NoCol, nuclear_col |-> NoCol, hydro_col |-> NoCol,
     res_col |-> NoCol, total_col |-> NoCol,
     state_col |-> 1, sector_col |-> NoCol, header_rows |-> {}]

\* The last matching cell takes the column
FirstMatch_LastWins(cm, f, hit, idx, col_idx) ==
    IF hit THEN [cm EXCEPT ![f] = col_idx, !.header_rows = @ \cup {idx}] ELSE cm

\* "if <f> is None: <f> = col_idx; header_rows.add(idx)", applied when hit holds
FirstMatch(cm, f, hit, idx, col_idx) ==
    IF hit /\ cm[f] = NoCol
    THEN [cm EXCEPT ![f] = col_idx, !.header_rows = @ \cup {idx}]
    ELSE cm

\* "<f> = col_idx; header_rows.add(idx)", applied when hit holds
EveryMatch(cm, f, hit, idx, col_idx) ==
    IF hit THEN [cm EXCEPT ![f] = col_idx, !.header_rows = @ \cup {idx}] ELSE cm

\* The body of the inner loop for one cell
ScanCell(cm, idx, col_idx, cell) ==
    IF isna(cell) THEN cm
    ELSE
    LET cell_str == Strip(Upper(PyStr(cell)))
        c1 == EveryMatch(cm, "state_col", cell_str = L_STATE, idx, col_idx)
        c2 == EveryMatch(c1, "sector_col",
                  Contains(cell_str, L_OWNERSHIP_SECTOR) \/ cell_str = L_SECTOR,
                  idx, col_idx)
        c3 == FirstMatch(c2, "coal_col",
                  Contains(cell_str, L_COAL) /\ ~Contains(cell_str, L_LIGNITE),
                  idx, col_idx)
        c4 == FirstMatch(c3, "lignite_col", Contains(cell_str, L_LIGNITE), idx, col_idx)
        c5 == FirstMatch(c4, "gas_col", Contains(cell_str, L_GAS), idx, col_idx)
        c6 == FirstMatch(c5, "diesel_col", Contains(cell_str, L_DIESEL), idx, col_idx)
        c7 == FirstMatch(c6, "nuclear_col", Contains(cell_str, L_NUCLEAR), idx, col_idx)
        c8 == FirstMatch(c7, "hydro_col", Contains(cell_str, L_HYDRO), idx, col_idx)
        c9 == FirstMatch(c8, "res_col", Contains(cell_str, L_RES), idx, col_idx)
    IN  FirstMatch(c9, "total_col",
            Contains(cell_str, L_GRAND) \/ (Contains(cell_str, L_TOTAL) /\ col_idx > 8),
            idx, col_idx)

RECURSIVE ScanRowFrom(_, _, _, _)
\* "for col_idx, cell in enumerate(row)", from col_idx on.  (The loops are
\* written so that each iteration's result is a value before the next one
\* starts: the singleton set binds it.)
ScanRowFrom(cm, row, idx, col_idx) ==
    IF col_idx >= Len(row) THEN cm
    ELSE CHOOSE out \in {ScanRowFrom(nxt, row, idx, col_idx + 1) :
                            nxt \in {ScanCell(cm, idx, col_idx, iloc(row, col_idx))}} : TRUE

\* One iteration of "for idx in range(min(15, len(df)))"
ScanRow(cm, df, idx) == ScanRowFrom(cm, df[idx + 1], idx, 0)

Min(a, b) == IF a < b THEN a ELSE b

SetMax(S) == CHOOSE x \in S : \A y \in S : y <= x

RECURSIVE ScanRowsFrom(_, _, _)
ScanRowsFrom(cm, df, idx) ==
    IF idx >= Min(HeaderScanRows, Len(df)) THEN cm
    ELSE CHOOSE out \in {ScanRowsFrom(nxt, df, idx + 1) :
                            nxt \in {ScanRow(cm, df, idx)}} : TRUE

\* The fallback that does not look at lignite_col
SectorFallback_AlwaysTwo(cm) ==
    IF cm.sector_col = NoCol THEN [cm EXCEPT !.sector_col = 2] ELSE cm

\* "if sector_col is None: sector_col = 2 if lignite_col is None else 3"
SectorFallback(cm) ==
    IF cm.sector_col = NoCol
    THEN [cm EXCEPT !.sector_col = IF cm.lignite_col = NoCol THEN 2 ELSE 3]
    ELSE cm

\* The row of the last header row itself
StartRow_NoIncrement(cm) ==
    IF cm.header_rows # {} THEN SetMax(cm.header_rows) ELSE DefaultStartRow

\* "start_row = max(header_rows) + 1 if header_rows else 5"
StartRow(cm) ==
    IF cm.header_rows # {} THEN SetMax(cm.header_rows) + 1 ELSE DefaultStartRow

\* The column positions after the search and the fallback
LocateHeaders(df) == SectorFallback(ScanRowsFrom(InitColumns, df, 0))

(***************************************************************************)
(* process_excel_file: the row loop                                        *)
(***************************************************************************)
NoState == <<"<None>">>   \* current_state = None; no text equals it

S_TotalOf == <<"T","o","t","a","l"," ","o","f">>
S_TOTAL_OF == <<"T","O","T","A","L"," ","O","F">>
S_http == <<"h","t","t","p">>

R_Northern == <<"N","o","r","t","h","e","r","n">>
R_Eastern == <<"E","a","s","t","e","r","n">>
R_Western == <<"W","e","s","t","e","r","n">>
R_Southern == <<"S","o","u","t","h","e","r","n">>
R_NorthEastern == <<"N","o","r","t","h"," ","E","a","s","t","e","r","n">>

\* regions, in the order of generate_urls_for_month_year
Regions == <<R_Northern, R_Eastern, R_Western, R_Southern, R_NorthEastern>>

\* ['NORTHERN', 'EASTERN', 'WESTERN', 'SOUTHERN', 'NORTH EASTERN']
RegionNamesUpper == {Upper(Regions[i]) : i \in 1..Len(Regions)}

S_STATE_SECTOR == <<"S","T","A","T","E"," ","S","E","C","T","O","R">>
S_PVT_SECTOR == <<"P","V","T"," ","S","E","C","T","O","R">>
S_CENTRAL_SECTOR == <<"C","E","N","T","R","A","L"," ","S","E","C","T","O","R">>
S_State == <<"S","t","a","t","e">>
S_Private == <<"P","r","i","v","a","t","e">>
S_Central == <<"C","e","n","t","r","a","l">>
S_Total == <<"T","o","t","a","l">>

SectorLabels == {S_STATE_SECTOR, S_PVT_SECTOR, S_CENTRAL_SECTOR}

sector_mapping(label) ==
    CASE label = S_STATE_SECTOR -> S_State
      [] label = S_PVT_SECTOR -> S_Private
      [] label = S_CENTRAL_SECTOR -> S_Central

\* "str(row.iloc[c]).strip() if pd.notna(row.iloc[c]) else 'nan'"
CellText(row, c) ==
    IF ~isna(iloc(row, c)) THEN Strip(PyStr(iloc(row, c))) ELSE S_nan

safe_numeric_convert(value) ==
    IF isna(value) THEN 0
    ELSE LET val_str == Strip(PyStr(value))
         IN  IF val_str \in {S_nan, <<>>, S_None} THEN 0
             ELSE IF PyFloat(val_str).ok THEN PyFloat(val_str).v ELSE 0

\* A missing column read as 1
FieldCell_DefaultOne(row, c) == IF c # NoCol /\ c < Len(row) THEN iloc(row, c) ELSE IntCell(1)

\* "row.iloc[c] if c is not None and c < len(row) else 0"
FieldCell(row, c) == IF c # NoCol /\ c < Len(row) THEN iloc(row, c) ELSE IntCell(0)

\* "thermal_total = coal + lignite + gas + diesel"
ThermalTotalOf(coal, lignite, gas, diesel) == coal + lignite + gas + diesel

\* The grand total always computed from the components
GrandTotalOf_AlwaysComputed(grand_total, thermal_total, nuclear, hydro, res) ==
    thermal_total + nuclear + hydro + res

\* "if grand_total == 0: grand_total = thermal_total + nuclear + hydro + res"
GrandTotalOf(grand_total, thermal_total, nuclear, hydro, res) ==
    IF grand_total = 0 THEN thermal_total + nuclear + hydro + res ELSE grand_total

\* The dictionary appended to result_data for a sector row
BuildRecord(row, cm, current_state, sector, date, region) ==
    LET coal    == safe_numeric_convert(FieldCell(row, cm.coal_col))
        lignite == safe_numeric_convert(FieldCell(row, cm.lignite_col))
        gas     == safe_numeric_convert(FieldCell(row, cm.gas_col))
        diesel  == safe_numeric_convert(FieldCell(row, cm.diesel_col))
        nuclear == safe_numeric_convert(FieldCell(row, cm.nuclear_col))
        hydro   == safe_numeric_convert(FieldCell(row, cm.hydro_col))
        res     == safe_numeric_convert(FieldCell(row, cm.res_col))
        grand_total   == safe_numeric_convert(FieldCell(row, cm.total_col))
        thermal_total == ThermalTotalOf(coal, lignite, gas, diesel)
    IN  [Date |-> date, Region |-> region, State |-> current_state,
         Sector |-> sector_mapping(Upper(sector)),
         Coal |-> coal, Lignite |-> lignite, Gas |-> gas, Diesel |-> diesel,
         ThermalTotal |-> thermal_total,
         Nuclear |-> nuclear, Hydro |-> hydro, RES |-> res,
         Total |-> GrandTotalOf(grand_total, thermal_total, nuclear, hydro, res)]

\* "if current_state": None and the empty string are both false
Truthy(current_state) == current_state # NoState /\ current_state # <<>>

\* "'Total of' in state_or_number or 'TOTAL OF' in state_or_number.upper()"
IsTotalOf(state_or_number) ==
    Contains(state_or_number, S_TotalOf) \/ Contains(Upper(state_or_number), S_TOTAL_OF)

\* Region names compared as they are written
IsRegionOrUrl_ExactCase(state_or_number) ==
    state_or_number \in {Regions[i] : i \in 1..Len(Regions)}
      \/ StartsWith(state_or_number, S_http)

\* The region-name and URL test of the state-name branch
IsRegionOrUrl(state_or_number) ==
    Upper(state_or_number) \in RegionNamesUpper \/ StartsWith(state_or_number, S_http)

\* row.iloc[state_col] or row.iloc[sector_col] raises IndexError
RowRaises(row, cm) == cm.state_col >= Len(row) \/ cm.sector_col >= Len(row)

\* A subtotal row taken for a state-name row
NameRowState_SubtotalIsName(current_state, state_or_number) ==
    IF state_or_number # S_nan /\ ~IsDigit(state_or_number)
    THEN IF IsRegionOrUrl(state_or_number) THEN NoState ELSE state_or_number
    ELSE current_state

\* current_state after a row whose sector cell is 'nan', '' or 'None'
NameRowState(current_state, state_or_number) ==
    IF IsTotalOf(state_or_number) THEN current_state
    ELSE IF state_or_number # S_nan /\ ~IsDigit(state_or_number)
         THEN IF IsRegionOrUrl(state_or_number) THEN NoState ELSE state_or_number
         ELSE current_state

\* The name-row branch ends in "continue" for these rows
NameRowContinues(state_or_number) ==
    IsTotalOf(state_or_number)
      \/ (state_or_number # S_nan /\ ~IsDigit(state_or_number))

\* The name-row branch taken whatever the sector cell holds
RowStep_AnyRowNamesState(st, row, cm, date, region) ==
    LET state_or_number == CellText(row, cm.state_col)
        sector == CellText(row, cm.sector_col)
    IN  IF state_or_number = S_nan /\ sector = S_nan THEN st
        ELSE IF NameRowContinues(state_or_number)
        THEN [st EXCEPT !.current_state = NameRowState(@, state_or_number)]
        ELSE IF Truthy(st.current_state) /\ Upper(sector) \in SectorLabels
        THEN [st EXCEPT !.result_data =
                 Append(@, BuildRecord(row, cm, st.current_state, sector, date, region))]
        ELSE st

\* One iteration of "for idx in range(start_row, len(df))" that does not raise;
\* st is [current_state, result_data]
RowStep(st, row, cm, date, region) ==
    LET state_or_number == CellText(row, cm.state_col)
        sector == CellText(row, cm.sector_col)
    IN  IF state_or_number = S_nan /\ sector = S_nan THEN st
        ELSE IF sector \in {S_nan, <<>>, S_None} /\ NameRowContinues(state_or_number)
        THEN [st EXCEPT !.current_state = NameRowState(@, state_or_number)]
        ELSE IF Truthy(st.current_state) /\ Upper(sector) \in SectorLabels
        THEN [st EXCEPT !.result_data =
                 Append(@, BuildRecord(row, cm, st.current_state, sector, date, region))]
        ELSE st

InitRows == [current_state |-> NoState, result_data |-> <<>>]

RECURSIVE RowsFrom(_, _, _, _, _, _)
RowsFrom(st, df, cm, idx, date, region) ==
    IF idx >= Len(df) THEN st
    ELSE CHOOSE out \in {RowsFrom(nxt, df, cm, idx + 1, date, region) :
                            nxt \in {RowStep(st, df[idx + 1], cm, date, region)}} : TRUE

\* "processed_df[processed_df['State'] != processed_df['Region']]"
FilterRegionTotals(result_data) == SelectSeq(result_data, LAMBDA r : r.State # r.Region)

\* The row loop raises when it runs at least once on a row too short for the
\* state or sector column; the outer except returns an empty DataFrame
RowLoopRaises(df, cm) == StartRow(cm) < Len(df) /\ RowRaises(df[StartRow(cm) + 1], cm)

\* process_excel_file on a grid that pd.read_excel returned
process_excel_file(df, date, region) ==
    LET cm == LocateHeaders(df)
    IN  IF RowLoopRaises(df, cm) THEN <<>>
        ELSE FilterRegionTotals(
                 RowsFrom(InitRows, df, cm, StartRow(cm), date, region).result_data)

(***************************************************************************)
(* Dates, file names and the month range                                   *)
(***************************************************************************)
\* months of generate_date_range; MonthAbbr[m] is the name of month m
MonthAbbr == <<<<"J","A","N">>, <<"F","E","B">>, <<"M","A","R">>, <<"A","P","R">>, <<"M","A","Y">>, <<"J","U","N">>, <<"J","U","L">>, <<"A","U","G">>, <<"S","E","P">>, <<"O","C","T">>, <<"N","O","V">>, <<"D","E","C">>>>

\* month_num of generate_urls_for_month_year and check_data_availability
month_num(month) == Pad2(CHOOSE m \in 1..12 : MonthAbbr[m] = month)

\* Every fourth year taken for a leap year
IsLeap_EveryFourth(year) == year % 4 = 0

IsLeap(year) == (year % 4 = 0 /\ year % 100 # 0) \/ year % 400 = 0

\* calendar.monthrange(year, month)[1]
LastDay(year, month) ==
    IF month = 2 THEN (IF IsLeap(year) THEN 29 ELSE 28)
    ELSE IF month \in {4, 6, 9, 11} THEN 30 ELSE 31

S_capacity2 == <<"c","a","p","a","c","i","t","y","2">>
S_xls == <<"x","l","s">>
S_DefaultDate == <<"0","1","-","0","1","-","2","0","2","5">>

\* f"capacity2-{region}-{year}-{month_num[month]}.xls"
FileName(region, year, month) ==
    S_capacity2 \o <<"-">> \o region \o <<"-">> \o year \o <<"-">>
      \o month_num(month) \o <<".">> \o S_xls

\* The month strings extract_date_from_filename accepts
MonthNums == {Pad2(m) : m \in 1..12}

extract_date_from_filename(filename) ==
    LET parts == Split(filename, "-")
    IN  IF Len(parts) < 4 THEN S_DefaultDate
        ELSE LET year == parts[3]
                 month == Split(parts[4], ".")[1]
             IN  IF month \in MonthNums
                 THEN IF IsDigit(year)
                      THEN Pad2(LastDay(StrToNat(year), StrToNat(month)))
                             \o <<"-">> \o month \o <<"-">> \o year
                      ELSE S_DefaultDate
                 ELSE NoState

\* The (filename, region) pairs of generate_urls_for_month_year, in order
generate_urls_for_month_year(year, month) ==
    [i \in 1..Len(Regions) |->
        [filename |-> FileName(Regions[i], year, month), region |-> Regions[i]]]

RECURSIVE DateRangeFrom(_, _, _, _)
\* The while loop of generate_date_range from (current_year, current_month)
DateRangeFrom(current_year, current_month, end_year, end_month) ==
    IF current_year < end_year \/ (current_year = end_year /\ current_month <= end_month)
    THEN <<[year |-> IntToStr(current_year), month |-> MonthAbbr[current_month]]>>
           \o (IF current_month + 1 > 12
               THEN DateRangeFrom(current_year + 1, 1, end_year, end_month)
               ELSE DateRangeFrom(current_year, current_month + 1, end_year, end_month))
    ELSE <<>>

generate_date_range(start_year, start_month, end_year, end_month) ==
    DateRangeFrom(start_year, start_month, end_year, end_month)

(***************************************************************************)
(* process_month_data: the All India rows                                  *)
(***************************************************************************)
NumRegions == 5        \* files of one month
RollupThreshold == 3   \* successful downloads the All India rows need
MaxRetries == 3        \* max_retries of download_excel_file

S_AllIndia == <<"A","l","l"," ","I","n","d","i","a">>
\* The State text of the All India rows written like their Region text
S_ALL_INDIA_AsRegion == S_AllIndia

S_ALL_INDIA == <<"A","L","L"," ","I","N","D","I","A">>

NumericFields ==
    <<"Coal", "Lignite", "Gas", "Diesel", "ThermalTotal", "Nuclear", "Hydro", "RES", "Total">>

\* The digits after the second decimal cut off
Round2_Truncates(v) == 10 * (v \div 10)

\* numpy's round to 2 decimals on thousandths: to the nearest hundredth,
\* a tie to the even hundredth
Round2(v) ==
    LET q == v \div 10
        r == v % 10
    IN  IF r < 5 THEN 10 * q
        ELSE IF r > 5 THEN 10 * (q + 1)
        ELSE IF q % 2 = 0 THEN 10 * q ELSE 10 * (q + 1)

RECURSIVE SumField(_, _)
\* The sum of field f over a sequence of records
SumField(recs, f) == IF recs = <<>> THEN 0 ELSE Head(recs)[f] + SumField(Tail(recs), f)

\* One row of monthly_data.groupby('Sector').agg(sum).round(2)
GroupTotals(monthly_data, sector) ==
    LET grp == SelectSeq(monthly_data, LAMBDA r : r.Sector = sector)
    IN  [f \in {NumericFields[i] : i \in 1..Len(NumericFields)} |->
            Round2(SumField(grp, f))]

\* The index of all_india_totals
GroupIndex(monthly_data) == {monthly_data[i].Sector : i \in 1..Len(monthly_data)}

AllIndiaRow(date, sector, totals) ==
    [Date |-> date, Region |-> S_AllIndia, State |-> S_ALL_INDIA, Sector |-> sector,
     Coal |-> totals["Coal"], Lignite |-> totals["Lignite"], Gas |-> totals["Gas"],
     Diesel |-> totals["Diesel"], ThermalTotal |-> totals["ThermalTotal"],
     Nuclear |-> totals["Nuclear"], Hydro |-> totals["Hydro"], RES |-> totals["RES"],
     Total |-> totals["Total"]]

RECURSIVE SumTotals(_, _, _)
\* all_india_totals.sum(): field f summed over the sectors of the index
SumTotals(monthly_data, sectors, f) ==
    IF sectors = {} THEN 0
    ELSE LET x == CHOOSE y \in sectors : TRUE
         IN  GroupTotals(monthly_data, x)[f] + SumTotals(monthly_data, sectors \ {x}, f)

\* all_india_rows for a non-empty monthly_data
AllIndiaRows(monthly_data) ==
    LET date == monthly_data[1].Date
        index == GroupIndex(monthly_data)
        order == <<S_State, S_Private, S_Central>>
        present == SelectSeq(order, LAMBDA x : x \in index)
        overall_totals ==
            [f \in {NumericFields[i] : i \in 1..Len(NumericFields)} |->
                SumTotals(monthly_data, index, f)]
    IN  [i \in 1..Len(present) |->
            AllIndiaRow(date, present[i], GroupTotals(monthly_data, present[i]))]
          \o <<AllIndiaRow(date, S_Total, overall_totals)>>

\* "if not monthly_data.empty and successful_downloads >= 3"
RollupGate(monthly_data, successful_downloads) ==
    monthly_data # <<>> /\ successful_downloads >= RollupThreshold

(***************************************************************************)
(* Sample spreadsheets served for a region                                 *)
(***************************************************************************)
T_SL == <<"S","L">>
T_GRAND_TOTAL == <<"G","R","A","N","D"," ","T","O","T","A","L">>
T_Maharashtra == <<"M","a","h","a","r","a","s","h","t","r","a">>
T_Gujarat == <<"G","u","j","a","r","a","t">>
T_TotalOfMaharashtra == <<"T","o","t","a","l"," ","o","f"," ","M","a","h","a","r","a","s","h","t","r","a">>
T_StateSector == <<"S","t","a","t","e"," ","S","e","c","t","o","r">>

\* A sheet in the newer layout: one state with a State and a Private row and
\* its subtotal row, then the region's own total rows
SampleGrid ==
    << <<TextCell(T_SL), TextCell(L_STATE), TextCell(L_SECTOR), TextCell(L_COAL),
         TextCell(L_LIGNITE), TextCell(L_HYDRO), TextCell(T_GRAND_TOTAL)>>,
       <<IntCell(1), TextCell(T_Maharashtra), NaN, NaN, NaN, NaN, NaN>>,
       <<NaN, NaN, TextCell(T_StateSector), FloatCell(1000004), FloatCell(4),
         IntCell(300), IntCell(0)>>,
       <<NaN, NaN, TextCell(S_PVT_SECTOR), IntCell(50), NaN, NaN, FloatCell(75000)>>,
       <<NaN, TextCell(T_TotalOfMaharashtra), NaN, FloatCell(1050004), FloatCell(4),
         IntCell(300), FloatCell(1375008)>>,
       <<NaN, TextCell(R_Northern), NaN, NaN, NaN, NaN, NaN>>,
       <<NaN, NaN, TextCell(T_StateSector), FloatCell(1000004), FloatCell(4),
         IntCell(300), IntCell(0)>> >>

\* A sheet with the header row and no data rows
HeaderOnlyGrid == <<SampleGrid[1]>>

(***************************************************************************)
(* State                                                                   *)
(***************************************************************************)
VARIABLES
    config,                \* START_YEAR, START_MONTH, END_YEAR, END_MONTH of main
    current_year,          \* generate_date_range: loop variable (0 outside a call)
    current_month,         \* generate_date_range: loop variable (0 outside a call)
    date_range,            \* generate_date_range: the list built and returned
    mi,                    \* 1-based position of main's loop in date_range
    pc,                    \* where main / process_month_data stands
    all_data,              \* main: the master table
    processed_months,      \* main
    successful_months,     \* main
    month_log,             \* main: the outcome printed for each month
    output,                \* the rows written to the CSV file, NoOutput before
    monthly_data,          \* process_month_data
    successful_downloads,  \* process_month_data
    ri,                    \* 1-based position of the region loop in urls
    attempt,               \* download_excel_file: the loop variable (0 outside a call)
    slept,                 \* download_excel_file: time.sleep(2) calls of this call
    dl_calls,              \* file names this process_month_data call passed
                           \* to download_excel_file
    region_log,            \* what this call printed for each region
    files,                 \* file names present in work_dir
    df,                    \* process_excel_file: the grid read
    region,                \* process_excel_file: the region argument
    cols,                  \* process_excel_file: the column positions and header_rows
    fpc,                   \* process_excel_file: where it stands
    idx,                   \* process_excel_file: the loop variable
    start_row,             \* process_excel_file
    current_state,         \* process_excel_file
    result_data,           \* process_excel_file
    processed_df           \* process_excel_file: the DataFrame returned

rangeVars == <<current_year, current_month>>
mainVars == <<config, rangeVars, date_range, mi, all_data, processed_months,
              successful_months, month_log, output>>
monthVars == <<monthly_data, successful_downloads, ri, attempt, slept, dl_calls,
              region_log, files>>
fileVars == <<df, region, cols, fpc, idx, start_row, current_state, result_data,
             processed_df>>
vars == <<pc, mainVars, monthVars, fileVars>>

NoOutput == <<"<no file>">>

\* The month main's loop is at
CurYear == date_range[mi].year
CurMonth == date_range[mi].month
CurUrls == generate_urls_for_month_year(CurYear, CurMonth)

(***************************************************************************)
(* main and process_month_data                                             *)
(***************************************************************************)
\* main enters the try block of the next month and calls process_month_data
StartMonth ==
    /\ pc = "main" /\ mi <= Len(date_range)
    /\ pc' = "probe"
    /\ monthly_data' = <<>> /\ successful_downloads' = 0 /\ ri' = 1
    /\ attempt' = 0 /\ slept' = 0 /\ dl_calls' = <<>> /\ region_log' = <<>>
    /\ UNCHANGED <<mainVars, files, fileVars>>

\* The rows of the month put before the rows of the earlier months
MonthEnds_Prepends(status, rows) ==
    /\ mi' = mi + 1
    /\ pc' = "main"
    /\ month_log' = Append(month_log,
                        [year |-> CurYear, month |-> CurMonth, status |-> status])
    /\ all_data' = rows \o all_data
    /\ processed_months' = IF status = "error" THEN processed_months
                           ELSE processed_months + 1
    /\ successful_months' = IF rows # <<>> THEN successful_months + 1
                            ELSE successful_months

\* main: the except branch and the code after the try of one month
MonthEnds(status, rows) ==
    /\ mi' = mi + 1
    /\ pc' = "main"
    /\ month_log' = Append(month_log,
                        [year |-> CurYear, month |-> CurMonth, status |-> status])
    /\ all_data' = all_data \o rows
    /\ processed_months' = IF status = "error" THEN processed_months
                           ELSE processed_months + 1
    /\ successful_months' = IF rows # <<>> THEN successful_months + 1
                            ELSE successful_months

\* A failed probe that leaves main's loop
Probe_LeavesLoop(answers) ==
    /\ pc = "probe"
    /\ \E available \in answers :
          IF available
          THEN /\ pc' = "region"
               /\ UNCHANGED <<mi, month_log, all_data, processed_months, successful_months>>
          ELSE /\ pc' = "main"
               /\ mi' = Len(date_range) + 1
               /\ month_log' = Append(month_log,
                     [year |-> CurYear, month |-> CurMonth, status |-> "skipped"])
               /\ UNCHANGED <<all_data, processed_months, successful_months>>
    /\ UNCHANGED <<config, rangeVars, date_range, output, monthVars, fileVars>>

\* process_month_data: "if not check_data_availability(year, month)"; the
\* month returns an empty DataFrame when the probe fails
Probe(answers) ==
    /\ pc = "probe"
    /\ \E available \in answers :
          IF available
          THEN /\ pc' = "region"
               /\ UNCHANGED <<mi, month_log, all_data, processed_months, successful_months>>
          ELSE MonthEnds("skipped", <<>>)
    /\ UNCHANGED <<config, rangeVars, date_range, output, monthVars, fileVars>>

\* The region loop calls download_excel_file for the next region
StartRegion ==
    /\ pc = "region" /\ ri <= NumRegions
    /\ pc' = "download"
    /\ attempt' = 0 /\ slept' = 0
    /\ dl_calls' = Append(dl_calls, CurUrls[ri].filename)
    /\ UNCHANGED <<mainVars, fileVars>>
    /\ UNCHANGED <<monthly_data, successful_downloads, ri, region_log, files>>

\* A sleep after every failed attempt
SleepsAfter_Always(failed_attempt) == 1

\* "if attempt < max_retries - 1: time.sleep(2)": the sleeps after a failed
\* attempt
SleepsAfter(failed_attempt) == IF failed_attempt < MaxRetries - 1 THEN 1 ELSE 0

\* download_excel_file: one iteration of "for attempt in range(max_retries)"
DownloadAttempt(outcomes) ==
    /\ pc = "download" /\ attempt < MaxRetries
    /\ \E outcome \in outcomes :
          CASE outcome = "ok" ->
                 /\ files' = files \cup {CurUrls[ri].filename}
                 /\ pc' = "downloaded"
                 /\ UNCHANGED <<attempt, slept>>
            [] outcome = "request_error" ->
                 /\ slept' = slept + SleepsAfter(attempt)
                 /\ attempt' = attempt + 1
                 /\ pc' = IF attempt + 1 < MaxRetries THEN "download" ELSE "dl_failed"
                 /\ UNCHANGED files
            [] outcome = "write_error" ->
                 /\ files' = files \cup {CurUrls[ri].filename}
                 /\ pc' = "dl_failed"
                 /\ UNCHANGED <<attempt, slept>>
            [] outcome = "other_error" ->
                 /\ pc' = "dl_failed"
                 /\ UNCHANGED <<attempt, slept, files>>
    /\ UNCHANGED <<config, rangeVars, date_range, mi, all_data, processed_months,
                   successful_months, month_log, output>>
    /\ UNCHANGED <<monthly_data, successful_downloads, ri, dl_calls, region_log, fileVars>>

\* The month's table replaced by the new frame
ConcatFrames_Overwrites(table, frame) == frame

\* "monthly_data = pd.concat([monthly_data, df], ignore_index=True)", which
\* runs when df is not empty
ConcatFrames(table, frame) == table \o frame

\* The True branch of "if download_excel_file(url, file_path)": count the
\* download, process the file, concatenate, remove the file
ProcessRegion(reads) ==
    /\ pc = "downloaded"
    /\ \E read \in reads :
          LET date == extract_date_from_filename(CurUrls[ri].filename)
              frame == IF read.ok
                       THEN process_excel_file(read.df, date, CurUrls[ri].region)
                       ELSE <<>>
          IN  /\ monthly_data' = ConcatFrames(monthly_data, frame)
              /\ region_log' = Append(region_log,
                    [region |-> CurUrls[ri].region,
                     status |-> IF frame # <<>> THEN "processed" ELSE "no data",
                     records |-> Len(frame)])
    /\ successful_downloads' = successful_downloads + 1
    /\ files' = files \ {CurUrls[ri].filename}
    /\ ri' = ri + 1
    /\ pc' = "region"
    /\ attempt' = 0 /\ slept' = 0
    /\ UNCHANGED <<mainVars, fileVars, dl_calls>>

\* The else branch: the download failed
RegionFailed ==
    /\ pc = "dl_failed"
    /\ ri' = ri + 1
    /\ pc' = "region"
    /\ attempt' = 0 /\ slept' = 0
    /\ region_log' = Append(region_log,
          [region |-> CurUrls[ri].region, status |-> "failed", records |-> 0])
    /\ UNCHANGED <<mainVars, fileVars>>
    /\ UNCHANGED <<monthly_data, successful_downloads, dl_calls, files>>

\* After the region loop: the All India rows, the return to main, and main's
\* handling of the month's table
FinishMonth ==
    /\ pc = "region" /\ ri > NumRegions
    /\ LET table == IF RollupGate(monthly_data, successful_downloads)
                    THEN monthly_data \o AllIndiaRows(monthly_data)
                    ELSE monthly_data
       IN  /\ monthly_data' = table
           /\ MonthEnds(IF table # <<>> THEN "data" ELSE "no data", table)
    /\ UNCHANGED <<config, rangeVars, date_range, output, fileVars>>
    /\ UNCHANGED <<successful_downloads, ri, attempt, slept, dl_calls, region_log, files>>

\* An exception that is not caught and ends the run
MonthRaises_EndsRun ==
    /\ pc \in {"probe", "region", "downloaded"}
    /\ pc' = "done"
    /\ UNCHANGED <<mainVars, monthVars, fileVars>>

\* An exception escapes process_month_data, from its own statements (those
\* of download_excel_file are inside its try); main's except prints it and
\* continues with the next month
MonthRaises ==
    /\ pc \in {"probe", "region", "downloaded"}
    /\ MonthEnds("error", <<>>)
    /\ UNCHANGED <<config, rangeVars, date_range, output, monthVars, fileVars>>

\* After the loop: all_data.to_csv when all_data is not empty
Save ==
    /\ pc = "main" /\ mi > Len(date_range)
    /\ pc' = "done"
    /\ output' = IF all_data # <<>> THEN all_data ELSE NoOutput
    /\ UNCHANGED <<config, rangeVars, date_range, mi, all_data, processed_months,
                   successful_months, month_log, monthVars, fileVars>>

(***************************************************************************)
(* process_excel_file, one loop iteration at a time                        *)
(***************************************************************************)
\* One iteration of the header search
ScanStep ==
    /\ fpc = "scan" /\ idx < Min(HeaderScanRows, Len(df))
    /\ cols' = ScanRow(cols, df, idx)
    /\ idx' = idx + 1
    /\ UNCHANGED <<pc, mainVars, monthVars>>
    /\ UNCHANGED <<df, region, fpc, start_row, current_state, result_data, processed_df>>

\* After the search: the sector_col fallback and start_row
StartRows ==
    /\ fpc = "scan" /\ idx >= Min(HeaderScanRows, Len(df))
    /\ cols' = SectorFallback(cols)
    /\ start_row' = StartRow(cols)
    /\ idx' = StartRow(cols)
    /\ fpc' = "rows"
    /\ UNCHANGED <<pc, mainVars, monthVars>>
    /\ UNCHANGED <<df, region, current_state, result_data, processed_df>>

\* The date argument process_month_data passes for the file of this region
FileDate == extract_date_from_filename(FileName(region, IntToStr(2025), MonthAbbr[6]))

\* One iteration of the row loop; an IndexError ends the function in the
\* outer except, which returns an empty DataFrame
RowLoopStep ==
    /\ fpc = "rows" /\ idx < Len(df)
    /\ IF RowRaises(df[idx + 1], cols)
       THEN /\ fpc' = "failed"
            /\ processed_df' = <<>>
            /\ UNCHANGED <<idx, current_state, result_data>>
       ELSE LET st == RowStep([current_state |-> current_state,
                               result_data |-> result_data],
                              df[idx + 1], cols, FileDate, region)
            IN  /\ current_state' = st.current_state
                /\ result_data' = st.result_data
                /\ idx' = idx + 1
                /\ UNCHANGED <<fpc, processed_df>>
    /\ UNCHANGED <<pc, mainVars, monthVars>>
    /\ UNCHANGED <<df, region, cols, start_row>>

\* After the row loop: the State != Region filter and the return
FinishFile ==
    /\ fpc = "rows" /\ idx >= Len(df)
    /\ processed_df' = FilterRegionTotals(result_data)
    /\ fpc' = "done"
    /\ UNCHANGED <<pc, mainVars, monthVars>>
    /\ UNCHANGED <<df, region, cols, idx, start_row, current_state, result_data>>

(***************************************************************************)
(* Grids for the header search: label cells placed in a blank sheet        *)
(***************************************************************************)
T_CoalMW == <<" ","C","o","a","l"," ","(","M","W",")"," ">>
T_CoalLignite == <<"C","o","a","l","/","L","i","g","n","i","t","e">>
T_Region == <<"R","e","g","i","o","n">>

HeaderTexts == {T_CoalMW, T_CoalLignite, L_LIGNITE, L_SECTOR, L_STATE, T_Region}
HeaderRowChoices == {0, 14, 15}
HeaderColChoices == {2, 3}

Placements ==
    [row : HeaderRowChoices, col : HeaderColChoices, text : HeaderTexts]

BlankRow(n) == [c \in 1..n |-> NaN]

\* The rows below a generated header: a state row and a sector row
TailRows ==
    << <<NaN, TextCell(T_Maharashtra), NaN, NaN>>,
       <<NaN, NaN, TextCell(T_StateSector), FloatCell(100500)>> >>

RECURSIVE PlaceAll(_, _)
PlaceAll(grid, ps) ==
    IF ps = <<>> THEN grid
    ELSE PlaceAll([grid EXCEPT ![Head(ps).row + 1][Head(ps).col + 1] = TextCell(Head(ps).text)],
                  Tail(ps))

HeaderGridOf(ps) ==
    LET rows == {ps[i].row : i \in 1..Len(ps)}
        height == IF rows = {} THEN 1 ELSE SetMax(rows) + 1
    IN  PlaceAll([r \in 1..height |-> BlankRow(Len(TailRows[1]))], ps) \o TailRows

HeaderGrids ==
    {HeaderGridOf(ps) : ps \in UNION {[1..n -> Placements] : n \in 0..MaxLabels}}

(***************************************************************************)
(* Grids for the row loop: a header row and rows drawn from samples        *)
(***************************************************************************)
T_Remarks == <<"R","e","m","a","r","k","s">>
T_EASTERN == <<"E","A","S","T","E","R","N">>
T_url == <<"h","t","t","p",":","/","/","n","p","p">>
T_12 == <<"1","2">>
T_blank == <<" ">>
T_SubTotal == <<"S","u","b"," ","T","o","t","a","l">>
T_na == <<"n",".","a",".">>
T_100 == <<"1","0","0">>

\* Headers: with a grand total column, and without one
RowHeaders ==
    {SampleGrid[1],
     [SampleGrid[1] EXCEPT ![7] = TextCell(T_Remarks)]}

NameRow(text) == <<NaN, TextCell(text), NaN, NaN, NaN, NaN, NaN>>

SectorRow(state, sector, coal, lignite, hydro, total) ==
    <<NaN, state, TextCell(sector), coal, lignite, hydro, total>>

NameRows ==
    {NameRow(T_Maharashtra), NameRow(T_Gujarat), NameRow(T_TotalOfMaharashtra),
     NameRow(R_Northern), NameRow(T_EASTERN), NameRow(T_url), NameRow(T_12),
     NameRow(T_blank), BlankRow(7)}

\* Rows that exercise the classifier: name rows and rows with a sector cell
ClassifierRows ==
    NameRows \cup
    {SectorRow(NaN, T_StateSector, FloatCell(1000004), FloatCell(4), IntCell(300), IntCell(0)),
     SectorRow(TextCell(T_Gujarat), S_PVT_SECTOR, IntCell(50), NaN, NaN, FloatCell(75000)),
     SectorRow(NaN, T_SubTotal, IntCell(7), NaN, NaN, IntCell(7))}

\* Rows that exercise the numeric cells of a sector row
ValueRows ==
    {SectorRow(NaN, T_StateSector, FloatCell(1000004), FloatCell(4), IntCell(300), IntCell(0)),
     SectorRow(NaN, S_PVT_SECTOR, IntCell(50), NaN, NaN, FloatCell(75000)),
     SectorRow(NaN, S_CENTRAL_SECTOR, TextCell(T_na), TextCell(T_100), FloatCell(0 - 5000),
               TextCell(T_na)),
     SectorRow(NaN, S_CENTRAL_SECTOR, TextCell(T_blank), TextCell(S_None), IntCell(20), NaN),
     SectorRow(NaN, T_StateSector, IntCell(0), IntCell(0), IntCell(0), TextCell(T_100))}

SeqsUpTo(S, n) == UNION {[1..k -> S] : k \in 0..n}

ClassifierGrids ==
    {<<h>> \o rows : h \in {SampleGrid[1]}, rows \in SeqsUpTo(ClassifierRows, MaxDataRows)}

ValueGrids ==
    {<<h, NameRow(T_Maharashtra)>> \o rows :
        h \in RowHeaders, rows \in SeqsUpTo(ValueRows, MaxDataRows - 1)}

\* One state with two sector rows and its subtotal, then the next state
ScenarioGrid ==
    <<SampleGrid[1], NameRow(T_Maharashtra),
      SectorRow(NaN, S_STATE_SECTOR, IntCell(100), NaN, NaN, NaN),
      SectorRow(NaN, S_PVT_SECTOR, IntCell(50), NaN, NaN, NaN),
      NameRow(T_TotalOfMaharashtra), NameRow(T_Gujarat),
      SectorRow(NaN, S_CENTRAL_SECTOR, IntCell(20), NaN, NaN, NaN)>>

\* A header spread over rows 2 to 6: "Coal/Lignite" before the coal label,
\* the coal label twice, and the labels of the other columns
HeaderScenarioGrid ==
    << BlankRow(7), BlankRow(7),
       <<NaN, NaN, TextCell(T_CoalLignite), NaN, NaN, NaN, NaN>>,
       <<NaN, TextCell(L_STATE), NaN, NaN, TextCell(T_CoalMW), TextCell(L_LIGNITE),
         TextCell(T_GRAND_TOTAL)>>,
       BlankRow(7), BlankRow(7),
       <<NaN, NaN, NaN, TextCell(L_COAL), NaN, NaN, NaN>>,
       <<NaN, TextCell(T_Maharashtra), NaN, NaN, NaN, NaN, NaN>>,
       <<NaN, NaN, NaN, TextCell(S_STATE_SECTOR), FloatCell(100500), IntCell(7), NaN>> >>

\* Sheets of three columns: one with a lignite label and no sector label,
\* and one with no label at all and rows below row 5
NarrowGrids ==
    { << <<TextCell(T_SL), TextCell(L_STATE), TextCell(L_LIGNITE)>>,
         <<NaN, TextCell(T_Maharashtra), NaN>>,
         <<NaN, TextCell(T_StateSector), IntCell(5)>> >>,
      [r \in 1..7 |-> IF r = 6 THEN <<NaN, TextCell(T_Maharashtra), NaN>>
                      ELSE IF r = 7 THEN <<NaN, NaN, TextCell(T_StateSector)>>
                      ELSE BlankRow(3)],
      [r \in 1..6 |-> <<TextCell(T_Maharashtra)>>] }

T_urlTotalOf ==
    <<"h","t","t","p",":","/","/","n","p","p","/","T","o","t","a","l"," ","o","f"," ","N","R">>

\* A state-name row, a row whose text starts with http and holds "Total of",
\* and a sector row
UrlSubtotalGrid ==
    <<SampleGrid[1], NameRow(T_Maharashtra), NameRow(T_urlTotalOf),
      SectorRow(NaN, S_STATE_SECTOR, IntCell(100), NaN, NaN, NaN)>>

FileGrids ==
    HeaderGrids \cup ClassifierGrids \cup ValueGrids \cup NarrowGrids
      \cup {ScenarioGrid, HeaderScenarioGrid, UrlSubtotalGrid}

(***************************************************************************)
(* Specifications                                                          *)
(***************************************************************************)
\* START/END settings of main: ranges of no month (the end before the
\* start), one month and two months, across the turn of a year
RangeConfigs ==
    {[START_YEAR |-> 2024, START_MONTH |-> 12, END_YEAR |-> 2024, END_MONTH |-> 11],
     [START_YEAR |-> 2024, START_MONTH |-> 12, END_YEAR |-> 2024, END_MONTH |-> 12],
     [START_YEAR |-> 2024, START_MONTH |-> 12, END_YEAR |-> 2025, END_MONTH |-> 1]}

\* The settings of a run over June 2025 alone
OneMonthConfig ==
    [START_YEAR |-> 2025, START_MONTH |-> 6, END_YEAR |-> 2025, END_MONTH |-> 6]

FileIdle ==
    /\ df = <<>> /\ region = R_Northern /\ cols = InitColumns /\ fpc = "idle"
    /\ idx = 0 /\ start_row = 0
    /\ current_state = NoState /\ result_data = <<>> /\ processed_df = <<>>

MainStart(configs) ==
    /\ config \in configs
    /\ current_year = 0 /\ current_month = 0
    /\ date_range = <<>> /\ mi = 1 /\ pc = "start"
    /\ all_data = <<>> /\ processed_months = 0 /\ successful_months = 0
    /\ month_log = <<>> /\ output = NoOutput
    /\ monthly_data = <<>> /\ successful_downloads = 0 /\ ri = 1
    /\ attempt = 0 /\ slept = 0 /\ dl_calls = <<>> /\ region_log = <<>> /\ files = {}

\* main: "date_range = generate_date_range(...)" and the empty master table
GenerateRange ==
    /\ pc = "start"
    /\ date_range' = generate_date_range(config.START_YEAR, config.START_MONTH,
                                         config.END_YEAR, config.END_MONTH)
    /\ pc' = "main"
    /\ UNCHANGED <<config, rangeVars, mi, all_data, processed_months, successful_months,
                   month_log, output, monthVars, fileVars>>

\* What check_data_availability can answer
ProbeAnswers == BOOLEAN

\* Transport outcomes of one download attempt
TransportOutcomes == {"ok", "request_error"}

\* Every outcome of one download attempt, local failures included
AttemptOutcomes == {"ok", "request_error", "write_error", "other_error"}

\* pd.read_excel returns the served sheet
ServedReads == {[ok |-> TRUE, df |-> SampleGrid]}

\* pd.read_excel raises, or returns one of the sheets
AllReads ==
    {[ok |-> FALSE, df |-> <<>>], [ok |-> TRUE, df |-> SampleGrid],
     [ok |-> TRUE, df |-> HeaderOnlyGrid]}

\* The whole run over a range of months, with transport failures
Init == MainStart(RangeConfigs) /\ FileIdle

Next ==
    \/ GenerateRange
    \/ StartMonth
    \/ Probe(ProbeAnswers)
    \/ StartRegion
    \/ DownloadAttempt(TransportOutcomes)
    \/ ProcessRegion(ServedReads)
    \/ RegionFailed
    \/ FinishMonth
    \/ MonthRaises
    \/ Save

Spec == Init /\ [][Next]_vars

\* A run over one month, with every failure of a download and of a read
InitMonth == MainStart({OneMonthConfig}) /\ FileIdle

NextMonth ==
    \/ GenerateRange
    \/ StartMonth
    \/ Probe(ProbeAnswers)
    \/ StartRegion
    \/ DownloadAttempt(AttemptOutcomes)
    \/ ProcessRegion(AllReads)
    \/ RegionFailed
    \/ FinishMonth
    \/ MonthRaises
    \/ Save

SpecMonth == InitMonth /\ [][NextMonth]_vars

\* process_excel_file on one grid
InitFile ==
    /\ config = OneMonthConfig
    /\ current_year = 0 /\ current_month = 0
    /\ date_range = <<>> /\ mi = 1 /\ pc = "file"
    /\ all_data = <<>> /\ processed_months = 0 /\ successful_months = 0
    /\ month_log = <<>> /\ output = NoOutput
    /\ monthly_data = <<>> /\ successful_downloads = 0 /\ ri = 1
    /\ attempt = 0 /\ slept = 0 /\ dl_calls = <<>> /\ region_log = <<>> /\ files = {}
    /\ df \in FileGrids
    /\ region = R_Northern /\ cols = InitColumns /\ fpc = "scan"
    /\ idx = 0 /\ start_row = 0
    /\ current_state = NoState /\ result_data = <<>> /\ processed_df = <<>>

NextFile ==
    \/ ScanStep
    \/ StartRows
    \/ RowLoopStep
    \/ FinishFile

SpecFile == InitFile /\ [][NextFile]_vars

\* START/END settings of runs over one month each: February of a leap year,
\* of a common year, of the century years 2000 and 2100, and months of 30
\* and of 31 days
DateConfigs ==
    {[START_YEAR |-> ym[1], START_MONTH |-> ym[2], END_YEAR |-> ym[1], END_MONTH |-> ym[2]] :
        ym \in {<<2024, 2>>, <<2025, 2>>, <<2000, 2>>, <<2100, 2>>,
                <<2025, 6>>, <<2024, 12>>, <<2025, 1>>}}

\* A run over one month, for each of the months of DateConfigs
InitDates == MainStart(DateConfigs) /\ FileIdle

NextDates ==
    \/ GenerateRange
    \/ StartMonth
    \/ Probe(ProbeAnswers)
    \/ StartRegion
    \/ DownloadAttempt(TransportOutcomes)
    \/ ProcessRegion(ServedReads)
    \/ RegionFailed
    \/ FinishMonth
    \/ MonthRaises
    \/ Save

SpecDates == InitDates /\ [][NextDates]_vars

(***************************************************************************)
(* generate_date_range, one loop iteration at a time                       *)
(***************************************************************************)
\* The loop ends one month early
RangeContinues_Exclusive(cy, cm, end_year, end_month) ==
    cy < end_year \/ (cy = end_year /\ cm < end_month)

\* The condition of the while loop
RangeContinues(cy, cm, end_year, end_month) ==
    cy < end_year \/ (cy = end_year /\ cm <= end_month)

\* "date_range = []; current_year = start_year; current_month = start_month"
RangeStart ==
    /\ pc = "start"
    /\ pc' = "range"
    /\ date_range' = <<>>
    /\ current_year' = config.START_YEAR
    /\ current_month' = config.START_MONTH
    /\ UNCHANGED <<config, mi, all_data, processed_months, successful_months,
                   month_log, output, monthVars, fileVars>>

\* One iteration of the while loop
RangeStep ==
    /\ pc = "range"
    /\ RangeContinues(current_year, current_month, config.END_YEAR, config.END_MONTH)
    /\ date_range' = Append(date_range,
                         [year |-> IntToStr(current_year), month |-> MonthAbbr[current_month]])
    /\ IF current_month + 1 > 12
       THEN current_month' = 1 /\ current_year' = current_year + 1
       ELSE current_month' = current_month + 1 /\ current_year' = current_year
    /\ UNCHANGED <<pc, config, mi, all_data, processed_months, successful_months,
                   month_log, output, monthVars, fileVars>>

\* The loop condition fails: "return date_range"
RangeReturn ==
    /\ pc = "range"
    /\ ~RangeContinues(current_year, current_month, config.END_YEAR, config.END_MONTH)
    /\ pc' = "main"
    /\ UNCHANGED <<mainVars, monthVars, fileVars>>

\* START/END settings with every pair of months of the years drawn
AllRangeConfigs ==
    [START_YEAR : {2024 + k : k \in 0..(MaxYears - 1)}, START_MONTH : 1..12,
     END_YEAR : {2024 + k : k \in 0..(MaxYears - 1)}, END_MONTH : 1..12]

InitRange == MainStart(AllRangeConfigs) /\ FileIdle

NextRange ==
    \/ RangeStart
    \/ RangeStep
    \/ RangeReturn

\* The program runs on: a loop iteration that can be taken is taken
SpecRange == InitRange /\ [][NextRange]_vars /\ WF_vars(NextRange)

(***************************************************************************)
(* Properties                                                              *)
(***************************************************************************)
Records(table) == {table[i] : i \in 1..Len(table)}

IsAllIndia(r) == r.Region = S_AllIndia

\* The regions with at least one record in a table
DataRegions(table) == {r.Region : r \in {x \in Records(table) : ~IsAllIndia(x)}}

\* C1: in every record of the master table, the All India rows included,
\* ThermalTotal is the sum of Coal, Lignite, Gas and Diesel of that record.
C1_ThermalTotalIsSum ==
    \A r \in Records(all_data) : r.ThermalTotal = r.Coal + r.Lignite + r.Gas + r.Diesel

\* C3: no record of the master table has its State equal to its Region,
\* the All India rows included.
C3_StateIsNeverRegion ==
    \A r \in Records(all_data) : r.State # r.Region

\* C3: the run is over and the master table holds records of a sheet that
\* has a region-total row, together with All India rows
C3_Witness ==
    /\ pc = "done"
    /\ \E r \in Records(all_data) : IsAllIndia(r)
    /\ \E r \in Records(all_data) : ~IsAllIndia(r) /\ r.State = T_Maharashtra

\* C5: the table of a month has All India rows exactly when at least 3 of
\* the 5 regions yielded records.
C5_RollupIffThreeRegionsWithData ==
    pc = "done" =>
        ((\E r \in Records(all_data) : IsAllIndia(r))
            <=> Cardinality(DataRegions(all_data)) >= RollupThreshold)

\* The Date of the records of the k-th month of date_range
MonthDate(k) ==
    extract_date_from_filename(FileName(R_Northern, date_range[k].year, date_range[k].month))

RowsOfMonth(k) == {r \in Records(all_data) : r.Date = MonthDate(k)}

MonthFiles(k) ==
    {FileName(Regions[i], date_range[k].year, date_range[k].month) : i \in 1..NumRegions}

LastStatus == month_log[Len(month_log)].status

\* C6: a month whose availability probe failed has no download call and no
\* row in the master table, and main's loop moves on to the month after it.
C6_SkippedMonth ==
    /\ \A k \in 1..Len(month_log) :
          month_log[k].status = "skipped" => RowsOfMonth(k) = {}
    /\ (pc = "main" /\ month_log # <<>> /\ LastStatus = "skipped") =>
          /\ dl_calls = <<>>
          /\ files \cap MonthFiles(Len(month_log)) = {}
    /\ pc = "main" => mi = Len(month_log) + 1

\* C6: the first month of two was skipped and the second one gave data
C6_Witness ==
    /\ pc = "done" /\ Len(month_log) = 2
    /\ month_log[1].status = "skipped" /\ month_log[2].status = "data"
    /\ RowsOfMonth(2) # {}

Count(table, reg) == Len(SelectSeq(table, LAMBDA r : r.Region = reg))

MonthInProgressOrReturned ==
    pc # "start" /\ (month_log = <<>> \/ LastStatus \in {"data", "no data"})

\* C7: in a month that is available, every region whose file was processed
\* keeps all its records in the month's table whatever happens to the other
\* regions, and when the month returns download_excel_file has been called
\* once for each of the 5 regions, in their order.
C7_RegionsIndependent ==
    MonthInProgressOrReturned =>
        /\ \A i \in 1..Len(region_log) :
              /\ region_log[i].region = Regions[i]
              /\ region_log[i].status = "processed" =>
                    /\ region_log[i].records > 0
                    /\ Count(monthly_data, Regions[i]) = region_log[i].records
              /\ region_log[i].status # "processed" => Count(monthly_data, Regions[i]) = 0
        /\ month_log # <<>> =>
              /\ Len(region_log) = NumRegions
              /\ dl_calls = [i \in 1..NumRegions |->
                               FileName(Regions[i], date_range[1].year, date_range[1].month)]

\* C7: a month returned with a processed region before a failed download,
\* and another region whose file gave nothing
C7_Witness ==
    /\ pc = "done" /\ month_log # <<>> /\ LastStatus = "data"
    /\ \E i, j, k \in 1..Len(region_log) :
          /\ i < j
          /\ region_log[i].status = "processed"
          /\ region_log[j].status = "failed"
          /\ region_log[k].status = "no data"
          /\ \E l \in (j + 1)..Len(region_log) : region_log[l].status = "processed"

\* C8: a month that raised has no row in the master table; the step that
\* ends it leaves the master table as it was; and at the end of the run every
\* month of the range has been handled, in order.
C8_MonthErrorIsContained ==
    /\ [](/\ \A k \in 1..Len(month_log) :
                month_log[k].status = "error" => RowsOfMonth(k) = {}
          /\ pc = "done" =>
                /\ Len(month_log) = Len(date_range)
                /\ \A k \in 1..Len(month_log) :
                      /\ month_log[k].year = date_range[k].year
                      /\ month_log[k].month = date_range[k].month)
    /\ [][(Len(month_log') > Len(month_log)
             /\ month_log'[Len(month_log')].status = "error")
            => all_data' = all_data]_vars

\* C8: the first month gave data, the second one raised, and the run ended
\* with the first month's rows
C8_Witness ==
    /\ pc = "done" /\ Len(month_log) = 2
    /\ month_log[1].status = "data" /\ month_log[2].status = "error"
    /\ RowsOfMonth(1) # {} /\ output = all_data

(***************************************************************************)
(* Properties of process_excel_file                                        *)
(***************************************************************************)
Fields ==
    {"state_col", "sector_col", "coal_col", "lignite_col", "gas_col", "diesel_col",
     "nuclear_col", "hydro_col", "res_col", "total_col"}

\* The rows the header search has covered
RowsSearched == IF fpc = "scan" THEN idx ELSE Min(HeaderScanRows, Len(df))

Width == IF df = <<>> THEN 0 ELSE Len(df[1])

\* The cell positions <<row, column>> of the rows searched, empty cells left out
SearchedCells ==
    {p \in (0..(RowsSearched - 1)) \X (0..(Width - 1)) : ~isna(df[p[1] + 1][p[2] + 1])}

\* The upper-cased, trimmed text of the cell at p
LabelText(p) == Strip(Upper(PyStr(df[p[1] + 1][p[2] + 1])))

\* The label pattern of field f, on the text txt of a cell in column col
MatchesText(f, txt, col) ==
        CASE f = "state_col" -> txt = L_STATE
          [] f = "sector_col" -> Contains(txt, L_OWNERSHIP_SECTOR) \/ txt = L_SECTOR
          [] f = "coal_col" -> Contains(txt, L_COAL) /\ ~Contains(txt, L_LIGNITE)
          [] f = "lignite_col" -> Contains(txt, L_LIGNITE)
          [] f = "gas_col" -> Contains(txt, L_GAS)
          [] f = "diesel_col" -> Contains(txt, L_DIESEL)
          [] f = "nuclear_col" -> Contains(txt, L_NUCLEAR)
          [] f = "hydro_col" -> Contains(txt, L_HYDRO)
          [] f = "res_col" -> Contains(txt, L_RES)
          [] f = "total_col" -> Contains(txt, L_GRAND) \/ (Contains(txt, L_TOTAL) /\ col > 8)

MatchesLabel(f, p) == MatchesText(f, LabelText(p), p[2])

\* The cells searched, each with the fields whose label it matches
FieldsAt(p) == LET txt == LabelText(p) IN {f \in Fields : MatchesText(f, txt, p[2])}

LabelledCells == {<<p, FieldsAt(p)>> : p \in SearchedCells}

\* p comes before q in the row-by-row, left-to-right order
Before(p, q) == p[1] < q[1] \/ (p[1] = q[1] /\ p[2] < q[2])

\* The cells that match the label of f
LabelCells(f) == {p \in SearchedCells : MatchesLabel(f, p)}

FirstCell(S) == CHOOSE p \in S : \A q \in S \ {p} : Before(p, q)

\* C10: coal_col is the column of the first cell, in scan order over the rows
\* searched so far, whose text contains COAL and not LIGNITE, and None when
\* there is no such cell; cells that come later leave it unchanged.
C10_CoalIsFirstMatch ==
    fpc \in {"scan", "rows", "done", "failed"} =>
        \E cells \in {LabelCells("coal_col")} :
            cols.coal_col = IF cells = {} THEN NoCol ELSE FirstCell(cells)[2]

\* C10: the search is over a sheet with two coal labels in different columns
\* after a cell that names both coal and lignite
C10_Witness ==
    /\ fpc = "done"
    /\ \E p, q \in LabelCells("coal_col") :
          /\ Before(p, q) /\ p[2] # q[2] /\ cols.coal_col = p[2]
          /\ \E b \in LabelCells("lignite_col") :
                /\ Contains(LabelText(b), L_COAL)
                /\ Before(b, p) /\ b[2] # p[2]
                /\ cols.lignite_col = b[2]

\* The rows in which some cell of T matches some label
LabelRows(T) == {t[1][1] : t \in {u \in T : u[2] # {}}}

\* The header search has just ended, or the file has been left
SearchEnded == (fpc = "rows" /\ idx = start_row) \/ fpc \in {"done", "failed"}

\* C9 as stated: the start_row the header search ends with is one more than
\* the last of the first 15 rows in which a cell matched a label, and 5 when
\* there is none.
C9_StartRowAfterLastLabelRow ==
    SearchEnded =>
        \E rows \in {LabelRows(LabelledCells)} :
            start_row = IF rows = {} THEN DefaultStartRow ELSE SetMax(rows) + 1

\* The cells that set a column: those that match the STATE or the sector
\* label, and the first cell in scan order that matches the label of each
\* other field
FirstOnly(S) == {p \in S : \A q \in S \ {p} : Before(p, q)}

CellsOf(T, f) == {t[1] : t \in {u \in T : f \in u[2]}}

ColumnCells(T, f) ==
    IF f \in {"state_col", "sector_col"} THEN CellsOf(T, f) ELSE FirstOnly(CellsOf(T, f))

ColumnRows(T) == {p[1] : p \in UNION {ColumnCells(T, f) : f \in Fields}}

\* C9 as amended: the start_row the header search ends with is one more than
\* the last of the first 15 rows in which a cell set a column, and 5 when
\* there is none.
C9_StartRowAfterLastColumnRow ==
    SearchEnded =>
        \E rows \in {ColumnRows(LabelledCells)} :
            start_row = IF rows = {} THEN DefaultStartRow ELSE SetMax(rows) + 1

\* C9: a sheet in which a label is repeated in a row below the last row that
\* set a column
C9_Witness ==
    /\ fpc = "done"
    /\ \E T \in {LabelledCells} :
          /\ ColumnRows(T) # {}
          /\ SetMax(LabelRows(T)) > SetMax(ColumnRows(T))
          /\ start_row = SetMax(ColumnRows(T)) + 1

\* The number a cell stands for: 0 for an empty cell and for text that is
\* not a number
NumberOf(cell) ==
    CASE cell.t = "int" -> 1000 * cell.v
      [] cell.t = "float" -> cell.v
      [] cell.t = "str" -> PyFloat(Strip(cell.s)).v
      [] OTHER -> 0

\* The source grand total of a row: 0 when there is no grand-total column
SourceGrandTotal(row) ==
    IF cols.total_col = NoCol THEN 0 ELSE NumberOf(iloc(row, cols.total_col))

\* C2: the record appended for a sector row has the source grand total as
\* its Total when that is not zero, and ThermalTotal + Nuclear + Hydro + RES
\* when the column is absent or the cell is zero, empty or not a number.
C2_GrandTotalRule ==
    [][(fpc = "rows" /\ Len(result_data') = Len(result_data) + 1) =>
          LET r == result_data'[Len(result_data')]
              src == SourceGrandTotal(df[idx + 1])
          IN  r.Total = IF src # 0 THEN src
                        ELSE r.ThermalTotal + r.Nuclear + r.Hydro + r.RES]_vars

ComponentSum(r) == r.ThermalTotal + r.Nuclear + r.Hydro + r.RES

\* C2: a sheet with a grand-total column gave one record that took the source
\* value and one record that was computed
C2_Witness ==
    /\ fpc = "done" /\ cols.total_col # NoCol
    /\ \E r \in Records(processed_df) : r.Total # ComponentSum(r)
    /\ \E r \in Records(processed_df) : r.Total = ComponentSum(r) /\ r.Total # 0

\* The state text and the sector text of the row with 0-based index i
StateText(i) == CellText(df[i + 1], cols.state_col)

SectorText(i) == CellText(df[i + 1], cols.sector_col)

SectorEmpty(i) == SectorText(i) \in {S_nan, <<>>, S_None}

\* A row with an empty sector cell and a state text that is not a subtotal
\* and not a number: it names a state, or it is a region name or a URL
MarkerRow(i) ==
    /\ SectorEmpty(i)
    /\ StateText(i) # S_nan
    /\ ~Contains(Upper(StateText(i)), S_TOTAL_OF)
    /\ ~IsDigit(StateText(i))

StateNameRow(i) ==
    /\ MarkerRow(i)
    /\ Upper(StateText(i)) \notin RegionNamesUpper
    /\ ~StartsWith(StateText(i), S_http)

SubtotalRow(i) == SectorEmpty(i) /\ Contains(Upper(StateText(i)), S_TOTAL_OF)

SectorRow_(i) == Upper(SectorText(i)) \in SectorLabels

\* The rows of the data area handled so far
RowsHandled == start_row .. (idx - 1)

\* The most recent marker row before row i
MarkersBefore(i) == {j \in RowsHandled : j < i /\ MarkerRow(j)}

\* Row i is a recognised sector row under a set state
UnderState(i) ==
    /\ SectorRow_(i)
    /\ MarkersBefore(i) # {}
    /\ StateNameRow(SetMax(MarkersBefore(i)))
    /\ StateText(SetMax(MarkersBefore(i))) # <<>>

Ascending(S) ==
    LET Asc[T \in SUBSET S] ==
            IF T = {} THEN <<>> ELSE Asc[T \ {SetMax(T)}] \o <<SetMax(T)>>
    IN  Asc[S]

\* The State every record should carry, in row order
ExpectedStates ==
    LET rows == Ascending({i \in RowsHandled : UnderState(i)})
    IN  [k \in 1..Len(rows) |-> StateText(SetMax(MarkersBefore(rows[k])))]

StatesOf(table) == [k \in 1..Len(table) |-> table[k].State]

\* C4: below the header boundary one record is emitted for each recognised
\* sector row under a set state, with the text of the most recent state-name
\* row before it as State; a "Total of ..." row emits nothing and leaves the
\* attribution as it is.
C4_StateAttribution ==
    /\ fpc \in {"rows", "done"} => StatesOf(result_data) = ExpectedStates
    /\ fpc = "done" => StatesOf(processed_df) = ExpectedStates

\* C4: a state-name row, two sector rows and a subtotal row gave two records
\* for that state, and the next state-name row took over
C4_Witness ==
    /\ fpc = "done"
    /\ \E i, j, k \in RowsHandled :
          /\ i < j /\ j < k
          /\ StateNameRow(i) /\ SubtotalRow(j) /\ StateNameRow(k)
          /\ StateText(i) # StateText(k)
          /\ Cardinality({m \in RowsHandled : i < m /\ m < j /\ SectorRow_(m)}) = 2
          /\ Len(processed_df) >= 3
          /\ processed_df[1].State = StateText(i)
          /\ processed_df[2].State = StateText(i)
          /\ processed_df[3].State = StateText(k)
          /\ \E m \in RowsHandled : k < m /\ SectorRow_(m)

(***************************************************************************)
(* Properties of download_excel_file and of the region loop                *)
(***************************************************************************)
\* C11: once the step of a region has finished, whether its file was
\* processed, gave nothing, or its download failed, the file of that region
\* is not in the working directory.
C11_NoFileAfterRegion ==
    pc = "region" =>
        \A i \in 1..(ri - 1) : CurUrls[i].filename \notin files

\* C12: a call of download_excel_file makes at most MaxRetries attempts; it
\* returns success at the first attempt that succeeds; after a transport
\* error it goes on to the next attempt, and returns failure only when
\* MaxRetries attempts failed; it has slept once after every failed attempt
\* but the last; every step of it stays in the call or returns to the
\* region loop.
C12_DownloadRetries ==
    /\ [](/\ pc = "download" => attempt < MaxRetries /\ slept = attempt
          /\ pc = "downloaded" =>
                /\ attempt < MaxRetries /\ slept = attempt
                /\ CurUrls[ri].filename \in files
          /\ pc = "dl_failed" => attempt = MaxRetries /\ slept = MaxRetries - 1)
    /\ [][pc = "download" =>
            /\ pc' \in {"download", "downloaded", "dl_failed"}
            /\ pc' # "downloaded" => attempt' = attempt + 1 /\ files' = files]_vars

\* C12: a download that failed MaxRetries times, and after it a download
\* that succeeded at its last attempt
C12_Witness ==
    /\ pc = "downloaded" /\ attempt = MaxRetries - 1 /\ slept = MaxRetries - 1
    /\ \E i \in 1..Len(region_log) : region_log[i].status = "failed"

(***************************************************************************)
(* Properties of the dates                                                 *)
(***************************************************************************)
\* The last day of the month of a run over one month, written out
LastDayWritten ==
    CASE config.START_YEAR = 2024 /\ config.START_MONTH = 2 ->
            <<"2","9","-","0","2","-","2","0","2","4">>
      [] config.START_YEAR = 2025 /\ config.START_MONTH = 2 ->
            <<"2","8","-","0","2","-","2","0","2","5">>
      [] config.START_YEAR = 2000 /\ config.START_MONTH = 2 ->
            <<"2","9","-","0","2","-","2","0","0","0">>
      [] config.START_YEAR = 2100 /\ config.START_MONTH = 2 ->
            <<"2","8","-","0","2","-","2","1","0","0">>
      [] config.START_YEAR = 2025 /\ config.START_MONTH = 6 ->
            <<"3","0","-","0","6","-","2","0","2","5">>
      [] config.START_YEAR = 2024 /\ config.START_MONTH = 12 ->
            <<"3","1","-","1","2","-","2","0","2","4">>
      [] config.START_YEAR = 2025 /\ config.START_MONTH = 1 ->
            <<"3","1","-","0","1","-","2","0","2","5">>

\* C13: every record of a month, in the month's table and in the master
\* table, the All India rows included, has the last calendar day of that
\* month as its Date, written DD-MM-YYYY.
C13_DateIsLastDayOfMonth ==
    \A r \in Records(monthly_data) \cup Records(all_data) : r.Date = LastDayWritten

\* C13: February 2100 ended with regional rows and All India rows
C13_Witness ==
    /\ pc = "done" /\ config.START_YEAR = 2100
    /\ \E r \in Records(all_data) : IsAllIndia(r)
    /\ \E r \in Records(all_data) : ~IsAllIndia(r)
    /\ output = all_data

\* The months of a year counted from year 0
MonthIndex(year, month) == 12 * year + (month - 1)

FirstIndex == MonthIndex(config.START_YEAR, config.START_MONTH)

LastIndex == MonthIndex(config.END_YEAR, config.END_MONTH)

\* The months from the start to the end, both included
ExpectedRange ==
    [k \in 1..(IF FirstIndex > LastIndex THEN 0 ELSE LastIndex - FirstIndex + 1) |->
        [year |-> IntToStr((FirstIndex + k - 1) \div 12),
         month |-> MonthAbbr[((FirstIndex + k - 1) % 12) + 1]]]

\* C14: generate_date_range returns, and the list it returns holds the
\* months from the start to the end, both included, each once and in
\* calendar order; it is empty when the start is after the end.
C14_RangeIsEnumerated ==
    /\ [](pc = "main" =>
            /\ date_range = ExpectedRange
            /\ date_range = generate_date_range(config.START_YEAR, config.START_MONTH,
                                                config.END_YEAR, config.END_MONTH))
    /\ <>(pc = "main")

\* C14: a range returned that runs from a December into the next year
C14_Witness ==
    /\ pc = "main" /\ Len(date_range) > 2
    /\ \E k \in 1..(Len(date_range) - 1) :
          /\ date_range[k].month = MonthAbbr[12]
          /\ date_range[k + 1].month = MonthAbbr[1]
          /\ StrToNat(date_range[k + 1].year) = StrToNat(date_range[k].year) + 1

\* C15: after the header search every column position that is not None, the
\* default state_col and the fallback sector_col included, is below the
\* number of columns of the sheet, and the file is not lost to a position
\* out of range.
C15_ColumnsInRange ==
    /\ fpc \in {"rows", "done", "failed"} =>
          \A f \in Fields : cols[f] # NoCol => cols[f] < Width
    /\ fpc # "failed"

\* The same state, or no state before and after
SameState(a, b) == a = b \/ (~Truthy(a) /\ ~Truthy(b))

\* C16: a row whose sector cell is empty and whose state text is blank or
\* all digits leaves current_state and the records as they are.
C16_BlankOrNumberKeepsState ==
    [][(/\ fpc = "rows" /\ idx' = idx + 1
        /\ SectorEmpty(idx)
        /\ StateText(idx) \in {<<>>, S_nan} \/ IsDigit(StateText(idx)))
       => (SameState(current_state', current_state) /\ result_data' = result_data)]_vars

\* A row with an empty sector cell whose state text is a region name, in any
\* letter case, or starts with http
ResetRow(i) ==
    /\ SectorEmpty(i)
    /\ Upper(StateText(i)) \in RegionNamesUpper \/ StartsWith(StateText(i), S_http)

\* C17 as stated: every region-name or URL row leaves current_state None
\* and emits nothing.
C17_EveryResetRowResets ==
    [][(fpc = "rows" /\ idx' = idx + 1 /\ ResetRow(idx)) =>
          (current_state' = NoState /\ result_data' = result_data)]_vars

\* C17 as amended: a region-name or URL row that is not a subtotal row
\* leaves current_state None and emits nothing; a record is emitted only
\* when the most recent row before it that names a state or resets it is a
\* state-name row, so sector rows after a reset and sector rows before any
\* state-name row emit nothing.
C17_ResetUntilNextState ==
    [][(fpc = "rows" /\ idx' = idx + 1) =>
          /\ (ResetRow(idx) /\ ~SubtotalRow(idx)) =>
                (current_state' = NoState /\ result_data' = result_data)
          /\ result_data' # result_data =>
                /\ MarkersBefore(idx) # {}
                /\ StateNameRow(SetMax(MarkersBefore(idx)))]_vars

\* C17: a state-name row, then a region-name or URL row, then a sector row,
\* and no record
C17_Witness ==
    /\ fpc = "done" /\ processed_df = <<>> /\ current_state = NoState
    /\ \E i, j, k \in RowsHandled :
          /\ i < j /\ j < k
          /\ StateNameRow(i) /\ StateText(i) # <<>>
          /\ ResetRow(j) /\ ~SubtotalRow(j) /\ SectorRow_(k)

\* The column variable of each numeric field of a record
FieldColumn ==
    [Coal |-> "coal_col", Lignite |-> "lignite_col", Gas |-> "gas_col",
     Diesel |-> "diesel_col", Nuclear |-> "nuclear_col", Hydro |-> "hydro_col",
     RES |-> "res_col"]

\* Text that is blank, or holds a character no decimal number has
NotANumber(text) ==
    text = <<>> \/ \E k \in 1..Len(text) : ~IsDigitChar(text[k]) /\ text[k] \notin {".", "-", "+"}

\* The value of field f expected from a row
ExpectedField(row, f) ==
    LET c == cols[FieldColumn[f]]
    IN  IF c = NoCol \/ c >= Len(row) THEN 0
        ELSE IF isna(row[c + 1]) THEN 0
        ELSE IF row[c + 1].t = "str" /\ NotANumber(Strip(row[c + 1].s)) THEN 0
        ELSE NumberOf(row[c + 1])

\* C18: a sector row under a set current_state, in a sheet wide enough for
\* the state and the sector columns, always appends one record and never ends
\* the file; each numeric field of the record is 0 when its column is absent
\* or its cell is empty or not a number, and the number of the cell otherwise.
C18_SectorRowAlwaysEmits ==
    [][(/\ fpc = "rows" /\ idx < Len(df)
        /\ cols.state_col < Width /\ cols.sector_col < Width
        /\ SectorRow_(idx) /\ Truthy(current_state))
       => /\ fpc' = "rows" /\ idx' = idx + 1
          /\ Len(result_data') = Len(result_data) + 1
          /\ \A f \in DOMAIN FieldColumn :
                result_data'[Len(result_data')][f] = ExpectedField(df[idx + 1], f)]_vars

\* C18: a record came out of a sector row whose coal cell is text that is
\* not a number, in a sheet with no gas column
C18_Witness ==
    /\ fpc = "done" /\ cols.gas_col = NoCol /\ cols.coal_col # NoCol
    /\ \E i \in RowsHandled :
          /\ SectorRow_(i)
          /\ df[i + 1][cols.coal_col + 1].t = "str"
          /\ NotANumber(Strip(df[i + 1][cols.coal_col + 1].s))
    /\ \E r \in Records(processed_df) : r.Coal = 0 /\ r.Gas = 0 /\ r.Hydro < 0

(***************************************************************************)
(* Properties of the All India rows and of the master table                *)
(***************************************************************************)
RegionalRows(table) == SelectSeq(table, LAMBDA r : ~IsAllIndia(r))

RollupRows(table) == SelectSeq(table, LAMBDA r : IsAllIndia(r))

OfSector(table, sector) == SelectSeq(table, LAMBDA r : r.Sector = sector)

FieldNames == {NumericFields[i] : i \in 1..Len(NumericFields)}

\* x is y rounded to 2 decimals, a tie going to the even hundredth
IsRounded(x, y) ==
    /\ x % 10 = 0
    /\ Abs(x - y) <= 5
    /\ Abs(x - y) = 5 => (x \div 10) % 2 = 0

\* The All India rows of a table: one row for each of State, Private and
\* Central that occurs among the regional rows, each field of it related by
\* Rel to the sum of the field over the regional rows of the sector, and one
\* Total row that sums the fields of those rows
RollupIs(table, Rel(_, _)) ==
    LET reg == RegionalRows(table)
        roll == RollupRows(table)
        sectorRows == SelectSeq(roll, LAMBDA r : r.Sector # S_Total)
    IN  roll # <<>> =>
          /\ \A r \in Records(roll) : r.State = S_ALL_INDIA
          /\ \A sector \in {S_State, S_Private, S_Central} :
                Len(OfSector(roll, sector)) = IF OfSector(reg, sector) # <<>> THEN 1 ELSE 0
          /\ \A r \in Records(sectorRows) :
                /\ r.Sector \in {S_State, S_Private, S_Central}
                /\ \A f \in FieldNames : Rel(r[f], SumField(OfSector(reg, r.Sector), f))
          /\ Len(OfSector(roll, S_Total)) = 1
          /\ \A f \in FieldNames :
                OfSector(roll, S_Total)[1][f] = SumField(sectorRows, f)

\* C19 as stated: every field of an All India sector row is the sum of the
\* field over the month's regional rows of that sector.
C19_RollupIsSum == RollupIs(monthly_data, LAMBDA x, y : x = y)

\* C19 as amended: every field of an All India sector row is that sum rounded
\* to 2 decimals; the Total row sums the rounded fields of the sector rows.
C19_RollupIsRoundedSum == RollupIs(monthly_data, IsRounded)

\* C19: a month returned with All India rows of two sectors, one of them
\* with a field that differs from the sum
C19_Witness ==
    /\ pc = "done"
    /\ Len(RollupRows(monthly_data)) = 3
    /\ \E r \in Records(RollupRows(monthly_data)) :
          /\ r.Sector = S_State
          /\ r.Lignite # SumField(OfSector(RegionalRows(monthly_data), S_State), "Lignite")

\* The position of the month of a record in date_range
MonthPos(r) == CHOOSE k \in 1..Len(date_range) : MonthDate(k) = r.Date

\* The position of a record within its month: its region in the order of the
\* region list, the All India rows last
RegionPos(r) ==
    IF IsAllIndia(r) THEN NumRegions + 1
    ELSE CHOOSE i \in 1..NumRegions : Regions[i] = r.Region

\* The rows of a table stand month by month and, within a month, region by
\* region with the All India rows last: no row comes before a row of an
\* earlier month, or of an earlier region of its month
InCompletionOrder(table) ==
    \A i \in 1..(Len(table) - 1) :
        \E a \in {MonthPos(table[i])}, b \in {MonthPos(table[i + 1])} :
            \/ a < b
            \/ a = b /\ RegionPos(table[i]) <= RegionPos(table[i + 1])

\* C20: the master table and the table of the month in progress are in
\* completion order, and every step leaves the rows the master table already
\* had in place, adding rows only after them.
C20_MasterTableOrder ==
    /\ [](InCompletionOrder(all_data) /\ InCompletionOrder(monthly_data))
    /\ [][/\ Len(all_data') >= Len(all_data)
          /\ SubSeq(all_data', 1, Len(all_data)) = all_data]_vars

\* C20: two months ended with rows, each with rows of two regions or more
\* and All India rows
C20_Witness ==
    /\ pc = "done" /\ Len(date_range) = 2
    /\ \A k \in 1..2 :
          /\ \E r \in RowsOfMonth(k) : IsAllIndia(r)
          /\ Cardinality({r.Region : r \in RowsOfMonth(k)}) >= 3

(***************************************************************************)
(* Properties of the column defaults                                       *)
(***************************************************************************)
\* C21: after the header search, sector_col is 2 when no cell matched the
\* sector label and no cell matched the lignite label, 3 when no cell matched
\* the sector label and one matched the lignite label, and the column of a
\* cell that matched the sector label when there is one; state_col is 1 when
\* no cell matched the STATE label.
C21_ColumnDefaults ==
    SearchEnded =>
        \E T \in {LabelledCells} :
            /\ CellsOf(T, "sector_col") = {} =>
                  cols.sector_col = IF CellsOf(T, "lignite_col") = {} THEN 2 ELSE 3
            /\ CellsOf(T, "sector_col") # {} =>
                  cols.sector_col \in {p[2] : p \in CellsOf(T, "sector_col")}
            /\ CellsOf(T, "state_col") = {} => cols.state_col = 1

\* C21: a sheet with a lignite label and neither a sector nor a STATE label
C21_Witness ==
    /\ fpc = "done"
    /\ cols.sector_col = 3 /\ cols.state_col = 1 /\ cols.lignite_col # NoCol
    /\ \E T \in {LabelledCells} :
          /\ CellsOf(T, "sector_col") = {}
          /\ CellsOf(T, "state_col") = {}
          /\ CellsOf(T, "lignite_col") # {}

(***************************************************************************)
(* Properties of the values and of the carried state                       *)
(***************************************************************************)
\* C22: every numeric field of every record process_excel_file returns, and
\* so of every record of the month's table and of the master table, is not
\* negative.
C22_FieldsNotNegative ==
    \A r \in Records(processed_df) \cup Records(monthly_data) \cup Records(all_data) :
        \A f \in FieldNames : r[f] >= 0

\* C23: a row whose sector cell is not empty leaves current_state as it is,
\* whatever its state text; the record it emits, if any, carries the state
\* that was current before the row.
C23_SectorRowKeepsState ==
    [][(fpc = "rows" /\ idx' = idx + 1 /\ ~SectorEmpty(idx)) =>
          /\ current_state' = current_state
          /\ result_data' # result_data =>
                /\ Truthy(current_state)
                /\ result_data' = Append(result_data, result_data'[Len(result_data')])
                /\ result_data'[Len(result_data')].State = current_state]_vars

\* C23: a sector row that holds a state name of its own came out under the
\* state carried before it, and no record carries the name of that row
C23_Witness ==
    /\ fpc = "done"
    /\ \E i \in RowsHandled :
          /\ SectorRow_(i) /\ UnderState(i)
          /\ StateText(i) \notin {S_nan, <<>>}
          /\ StateText(i) # StateText(SetMax(MarkersBefore(i)))
          /\ \E r \in Records(processed_df) : r.State = StateText(SetMax(MarkersBefore(i)))
          /\ \A r \in Records(processed_df) : r.State # StateText(i)

=============================================================================
